---- MODULE Spec2Model ----
(***************************************************************************)
(* PrepaIn facade API (src/app.py) over the Moodle web-service client      *)
(* (src/moodle_client.py).  One inbound request is handled at a time; an   *)
(* action is the code of a handler between two awaits of call_moodle.      *)
(* The upstream system's reply to each outbound POST is chosen             *)
(* nondeterministically.                                                   *)
(***************************************************************************)
EXTENDS Integers, Sequences, FiniteSets, TLC

VARIABLES
    moodle_token,      \* os.getenv("MOODLE_TOKEN") is set
    pc,                \* position of the running handler
    endpoint,          \* "cursos" | "curso" | "progress" | "redeem"
    api_key,           \* Optional[str] header api-key: <<>> is None, <<s>> is s
    lp_id,             \* Optional[str] lp-id / path id / body.lpid
    user_identifier,   \* user-id query of /user-lms-progress
    invoked,           \* call sites of call_moodle executed by this request
    posts,             \* outbound POSTs issued by this request, in order
    reply,             \* the last upstream reply (NoReply before any)
    response,          \* [status, origin]; status 0 while the request runs
    category_id,       \* local of handle_moodle_enrollment / _build_learning_paths_response
    course_ids,        \* local of handle_moodle_enrollment
    user_id,           \* local of handle_moodle_enrollment
    user,              \* local of progress
    courses,           \* progress: enrolled courses not yet visited by the loop
    courses_progress,  \* progress: CourseProgress models built so far
    data,              \* LearningPathsResponse.data / UserLMSProgressResponse.lps[0]
    course_in,         \* input of the mapping specification
    lp_out             \* output of the mapping specification

vars == <<moodle_token, pc, endpoint, api_key, lp_id, user_identifier, invoked,
          posts, reply, response, category_id, course_ids, user_id, user,
          courses, courses_progress, data, course_in, lp_out>>

-----------------------------------------------------------------------------
(* Bounds of the model *)

MaxCourses == 2
MaxCategories == 2
MaxUsers == 1

(* Program constants *)

DUMMY_API_KEY == "test-api-key"
MOODLE_CATEGORY_NAME == "prepain"
MOCK_TIMESTAMP == "2025-03-10T12:00:00"
MOODLE_STUDENT_ROLE_ID == 5

-----------------------------------------------------------------------------
(* JSON values received from upstream.  A field that is absent or null is  *)
(* JNull (dict.get returns None), an integer field is JInt(n).             *)

JNull == [t |-> "null", v |-> 0]
JInt(n) == [t |-> "int", v |-> n]

\* str(x) of an optional integer: str(None) is "None"
str(j) == IF j.t = "null" THEN "None" ELSE ToString(j.v)

\* sequences over S of length at most n
SeqUpTo(S, n) == UNION {[1..k -> S] : k \in 0..n}

-----------------------------------------------------------------------------
(* Upstream replies.  kind is what the HTTP exchange did: "transport_error" *)
(* (httpx.RequestError), "http_error" (raise_for_status on a non-2xx),      *)
(* "bad_json" (a 2xx body that response.json() cannot parse), "ok" (a 2xx   *)
(* JSON body).  A body has a shape and, where the shape carries a list,     *)
(* its items: "exception" is a JSON object with a truthy "exception" key.   *)

NoBody == [shape |-> "none", items |-> <<>>]
NoReply == [kind |-> "none", body |-> NoBody]
ExceptionBody == [shape |-> "exception", items |-> <<>>]
Body(shape, items) == [shape |-> shape, items |-> items]

Replies(bodies) ==
    {[kind |-> k, body |-> NoBody] : k \in {"transport_error", "http_error", "bad_json"}}
    \cup {[kind |-> "ok", body |-> b] : b \in bodies \cup {ExceptionBody}}

\* core_course_get_categories
CategoryRecords == [name : {MOODLE_CATEGORY_NAME, "otra"}, id : {JNull, JInt(7)}]
CategoryBodies ==
    {Body("list", l) : l \in SeqUpTo(CategoryRecords, MaxCategories)}
    \cup {Body("dict", <<>>)}

\* epoch fields of a course record: absent, 0, a valid epoch, a negative
\* epoch, an epoch past year 9999, an epoch past the platform time_t, a
\* string
TsValues == {"None", "0", "1700000000", "-86400", "10**12", "10**20", "'abc'"}

CourseRecord(id, startdate, enddate, timecreated, timemodified) ==
    [id |-> id, startdate |-> startdate, enddate |-> enddate,
     timecreated |-> timecreated, timemodified |-> timemodified]

CourseIdValues == {JNull, JInt(1), JInt(2)}

\* the course records the upstream listing is drawn from
UpstreamCourses ==
    {CourseRecord(i, e[1], e[2], e[3], e[4]) :
        i \in CourseIdValues,
        e \in {<<"None", "None", "None", "None">>,
               <<"1700000000", "0", "1700000000", "1700000000">>,
               <<"None", "10**20", "10**12", "'abc'">>}}

\* core_course_get_courses_by_field: {"courses": [...]}, an object without
\* "courses", or a JSON list
CourseListBodies ==
    {Body("courses", l) : l \in SeqUpTo(UpstreamCourses, MaxCourses)}
    \cup {Body("dict", <<>>), Body("list", <<>>)}

\* core_user_get_users_by_field / core_user_create_users
UserRecords == [id : {JNull, JInt(42)}]
UserBodies ==
    {Body("list", l) : l \in SeqUpTo(UserRecords, MaxUsers)}
    \cup {Body("dict", <<>>)}

\* enrol_manual_enrol_users answers null
EnrolBodies == {Body("null", <<>>)}

-----------------------------------------------------------------------------
(* Gateway client: src/moodle_client.py *)

Raise(status, origin) == [status |-> status, origin |-> origin]
Running == Raise(0, "")

\* call_moodle re-issuing a failed POST once
call_moodle_retry(token, r) ==
    IF ~token THEN [raised |-> 500, posted |-> 0, data |-> NoBody]
    ELSE IF r.kind \in {"http_error", "transport_error"}
    THEN [raised |-> 502, posted |-> 2, data |-> NoBody]
    ELSE IF r.kind = "bad_json" THEN [raised |-> 500, posted |-> 1, data |-> NoBody]
    ELSE IF r.body.shape = "exception" THEN [raised |-> 400, posted |-> 1, data |-> NoBody]
    ELSE [raised |-> 0, posted |-> 1, data |-> r.body]

\* call_moodle swallowing a transport failure (returning None)
call_moodle_swallow(token, r) ==
    IF ~token THEN [raised |-> 500, posted |-> 0, data |-> NoBody]
    ELSE IF r.kind = "http_error" THEN [raised |-> 502, posted |-> 1, data |-> NoBody]
    ELSE IF r.kind = "transport_error" THEN [raised |-> 0, posted |-> 1, data |-> NoBody]
    ELSE IF r.kind = "bad_json" THEN [raised |-> 500, posted |-> 1, data |-> NoBody]
    ELSE IF r.body.shape = "exception" THEN [raised |-> 400, posted |-> 1, data |-> NoBody]
    ELSE [raised |-> 0, posted |-> 1, data |-> r.body]

\* call_moodle on an upstream reply r: the HTTPException status raised (0 when
\* it returns), the unhandled exception if any, the number of POSTs sent and
\* the JSON value returned.
call_moodle(token, r) ==
    IF ~token THEN [raised |-> 500, posted |-> 0, data |-> NoBody]
    ELSE IF r.kind = "http_error" THEN [raised |-> 502, posted |-> 1, data |-> NoBody]
    ELSE IF r.kind = "transport_error" THEN [raised |-> 502, posted |-> 1, data |-> NoBody]
    ELSE IF r.kind = "bad_json" THEN [raised |-> 500, posted |-> 1, data |-> NoBody]
    ELSE IF r.body.shape = "exception" THEN [raised |-> 400, posted |-> 1, data |-> NoBody]
    ELSE [raised |-> 0, posted |-> 1, data |-> r.body]

\* what the log of POSTs keeps of a reply: its kind ("exception" for a 2xx
\* exception envelope), the shape of its body and the length of its list
Answer(r) ==
    [kind |-> IF r.body.shape = "exception" THEN "exception" ELSE r.kind,
     shape |-> r.body.shape,
     n |-> Len(r.body.items)]

Post(wsfunction, params, r) ==
    [wsfunction |-> wsfunction, params |-> params, answer |-> Answer(r)]

\* the POSTs a call adds to the log: the same payload, `posted` times
Sent(out, wsfunction, params, r) == [i \in 1..out.posted |-> Post(wsfunction, params, r)]

-----------------------------------------------------------------------------
(* Pure helpers of src/app.py *)

\* require_api_key checking only that the header is present
require_api_key_presence(key) ==
    IF key = <<>> \/ key[1] = "" THEN 401 ELSE 0

\* require_api_key: the status it raises, 0 when it returns
require_api_key(key) ==
    IF key = <<>> \/ key[1] = "" THEN 401
    ELSE IF key[1] # DUMMY_API_KEY THEN 401
    ELSE 0

\* Python truth value of an epoch field
Truthy(ts) == ts \notin {"None", "0"}

\* a or b
Or(a, b) == IF Truthy(a) THEN a ELSE b

Returned(value) == [exc |-> "", value |-> value]
Raised(exc) == [exc |-> exc, value |-> "None"]

\* datetime.fromtimestamp on a truthy value (CPython, 64-bit POSIX)
fromtimestamp(ts) ==
    CASE ts \in {"1700000000", "-86400"} -> Returned(ts)
      [] ts = "10**12" -> Raised("ValueError")
      [] ts = "10**17" -> Raised("OSError")
      [] ts = "10**20" -> Raised("OverflowError")
      [] OTHER -> Raised("TypeError")

_to_datetime(timestamp_value) ==
    IF Truthy(timestamp_value)
    THEN LET r == fromtimestamp(timestamp_value)
         IN  IF r.exc \in {"TypeError", "ValueError", "OSError"}
             THEN Returned(MOCK_TIMESTAMP)
             ELSE r
    ELSE Returned(MOCK_TIMESTAMP)

\* The id and the timestamps of the LearningPath built from a course record;
\* the first conversion that raises ends the mapping.
_map_moodle_course_to_learning_path(course) ==
    LET start_date == _to_datetime(Or(course.startdate, course.timecreated))
        end_date == IF Truthy(course.enddate) THEN _to_datetime(course.enddate)
                    ELSE Returned("None")
        created_at == _to_datetime(course.timecreated)
        updated_at == _to_datetime(course.timemodified)
        failed == {r \in {start_date, end_date, created_at, updated_at} : r.exc # ""}
    IN  IF failed # {}
        THEN [exc |-> (CHOOSE r \in failed : TRUE).exc, lp |-> <<>>]
        ELSE [exc |-> "",
              lp |-> <<[id |-> str(course.id),
                        start_date |-> start_date.value,
                        end_date |-> end_date.value,
                        created_at |-> created_at.value,
                        updated_at |-> updated_at.value]>>]

\* _get_moodle_category_id answering Not-Found for a missing category and
\* for a category without id
category_of_not_found(body) ==
    IF body.shape # "list" THEN [raised |-> 500, id |-> 0]
    ELSE LET matching == SelectSeq(body.items, LAMBDA cat : cat.name = MOODLE_CATEGORY_NAME)
         IN  IF matching = <<>> \/ Head(matching).id = JNull THEN [raised |-> 404, id |-> 0]
             ELSE [raised |-> 0, id |-> Head(matching).id.v]

\* _get_moodle_category_id after its call returned `body`
category_of(body) ==
    IF body.shape # "list" THEN [raised |-> 500, id |-> 0]
    ELSE LET matching == SelectSeq(body.items, LAMBDA cat : cat.name = MOODLE_CATEGORY_NAME)
         IN  IF matching = <<>> THEN [raised |-> 400, id |-> 0]
             ELSE IF Head(matching).id = JNull THEN [raised |-> 502, id |-> 0]
             ELSE [raised |-> 0, id |-> Head(matching).id.v]

\* _get_courses_in_category without its check of an empty list of ids
course_ids_of_unchecked(body) ==
    IF body.shape # "courses" THEN [raised |-> 502, ids |-> <<>>]
    ELSE LET with_id == SelectSeq(body.items, LAMBDA course : course.id # JNull)
         IN  [raised |-> 0, ids |-> [i \in 1..Len(with_id) |-> with_id[i].id.v]]

\* _get_courses_in_category after its call returned `body`
course_ids_of(body) ==
    IF body.shape # "courses" THEN [raised |-> 502, ids |-> <<>>]
    ELSE LET with_id == SelectSeq(body.items, LAMBDA course : course.id # JNull)
             ids == [i \in 1..Len(with_id) |-> with_id[i].id.v]
         IN  IF ids = <<>> THEN [raised |-> 400, ids |-> <<>>]
             ELSE [raised |-> 0, ids |-> ids]

\* _fetch_moodle_courses taking a missing "courses" for an empty list
fetched_courses_lenient(body) ==
    IF body.shape # "courses" THEN [raised |-> 0, courses |-> <<>>]
    ELSE [raised |-> 0, courses |-> body.items]

\* _fetch_moodle_courses after its call returned `body`
fetched_courses(body) ==
    IF body.shape # "courses" THEN [raised |-> 502, courses |-> <<>>]
    ELSE [raised |-> 0, courses |-> body.items]

\* _build_learning_paths_response without its filter on lp_id
learning_paths_unfiltered(id, fetched) ==
    LET mapped == [i \in 1..Len(fetched) |-> _map_moodle_course_to_learning_path(fetched[i])]
        failed == {i \in 1..Len(fetched) : mapped[i].exc # ""}
    IN  IF failed # {} THEN [raised |-> 500, data |-> <<>>]
        ELSE [raised |-> 0, data |-> [i \in 1..Len(fetched) |-> mapped[i].lp[1]]]

\* _build_learning_paths_response from the fetched courses on
learning_paths(id, fetched) ==
    LET mapped == [i \in 1..Len(fetched) |-> _map_moodle_course_to_learning_path(fetched[i])]
        failed == {i \in 1..Len(fetched) : mapped[i].exc # ""}
        all == [i \in 1..Len(fetched) |-> mapped[i].lp[1]]
    IN  IF failed # {} THEN [raised |-> 500, data |-> <<>>]
        ELSE IF id # <<>> /\ id[1] # ""
        THEN [raised |-> 0, data |-> SelectSeq(all, LAMBDA lp : lp.id = id[1])]
        ELSE [raised |-> 0, data |-> all]

\* _get_or_create_user never taking the looked-up user
existing_user_ignored(users) == FALSE

\* _get_or_create_user: isinstance(users, list) and users
existing_user(users) == users.shape = "list" /\ users.items # <<>>

\* _enrol_user_to_courses writing every record under index 0
enrolments_of_index_0(uid, ids) ==
    [k \in {<<0, f>> : f \in IF ids = <<>> THEN {} ELSE {"roleid", "userid", "courseid"}} |->
        CASE k[2] = "roleid" -> MOODLE_STUDENT_ROLE_ID
          [] k[2] = "userid" -> uid
          [] OTHER -> ids[Len(ids)]]

\* _enrol_user_to_courses: the enrolments[idx][field] parameters
enrolments_of(uid, ids) ==
    [k \in {<<i - 1, f>> : i \in 1..Len(ids), f \in {"roleid", "userid", "courseid"}} |->
        CASE k[2] = "roleid" -> MOODLE_STUDENT_ROLE_ID
          [] k[2] = "userid" -> uid
          [] OTHER -> ids[k[1] + 1]]

-----------------------------------------------------------------------------
(* Inbound requests *)

Endpoints == {"cursos", "curso", "progress", "redeem"}
ApiKeyValues == {<<>>, <<"">>, <<"otra-api-key">>, <<DUMMY_API_KEY>>}
UserEmail == "ana@prepa.in"

\* lp-id query (optional), path id (never empty), lp-id query (required),
\* body.lpid
LpIdValues(e) ==
    CASE e = "cursos" -> {<<>>, <<"">>, <<"1">>, <<"9">>}
      [] e = "curso" -> {<<"1">>, <<"9">>}
      [] e = "progress" -> {<<"1">>}
      [] OTHER -> {<<"1">>, <<"9">>}

\* "@" in user_identifier
HasAt(identifier) == identifier = UserEmail

UserIdentifiers(e) == IF e = "progress" THEN {"42", UserEmail} ELSE {""}

NoUser == [id |-> JNull]
NoCourse == CourseRecord(JNull, "None", "None", "None", "None")

Locals ==
    /\ category_id = 0
    /\ course_ids = <<>>
    /\ user_id = 0
    /\ user = NoUser
    /\ courses = <<>>
    /\ courses_progress = <<>>
    /\ data = <<>>

Init ==
    /\ moodle_token \in BOOLEAN
    /\ pc = "idle"
    /\ endpoint = "none"
    /\ api_key = <<>>
    /\ lp_id = <<>>
    /\ user_identifier = ""
    /\ invoked = 0
    /\ posts = <<>>
    /\ reply = NoReply
    /\ response = Running
    /\ Locals
    /\ course_in = NoCourse
    /\ lp_out = <<>>

\* The server accepts a request; nothing of the previous request is kept.
Request ==
    /\ pc \in {"idle", "done"}
    /\ \E e \in Endpoints :
         \E k \in ApiKeyValues, l \in LpIdValues(e), u \in UserIdentifiers(e) :
            /\ endpoint' = e
            /\ api_key' = k
            /\ lp_id' = l
            /\ user_identifier' = u
            /\ pc' = e
    /\ invoked' = 0
    /\ posts' = <<>>
    /\ reply' = NoReply
    /\ response' = Running
    /\ category_id' = 0
    /\ course_ids' = <<>>
    /\ user_id' = 0
    /\ user' = NoUser
    /\ courses' = <<>>
    /\ courses_progress' = <<>>
    /\ data' = <<>>
    /\ UNCHANGED <<moodle_token, course_in, lp_out>>

\* the handler ends with an HTTP status
Respond(status, origin) ==
    /\ response' = Raise(status, origin)
    /\ pc' = "done"

\* one await of call_moodle
Awaited(out, r, wsfunction, params) ==
    /\ invoked' = invoked + 1
    /\ posts' = posts \o Sent(out, wsfunction, params, r)
    /\ reply' = IF out.posted = 0 THEN NoReply ELSE r

Inputs == <<moodle_token, endpoint, api_key, lp_id, user_identifier, course_in, lp_out>>

\* entry of a protected handler: require_api_key, then its first call site
Enter(handler, first) ==
    /\ pc = handler
    /\ IF require_api_key(api_key) # 0
       THEN Respond(require_api_key(api_key), "require_api_key")
       ELSE /\ pc' = first
            /\ UNCHANGED response
    /\ UNCHANGED <<Inputs, invoked, posts, reply, category_id, course_ids, user_id,
                   user, courses, courses_progress, data>>

cursos == Enter("cursos", "_get_moodle_category_id")
curso == Enter("curso", "_get_moodle_category_id")
progress == Enter("progress", "_resolve_moodle_user")
redeem == Enter("redeem", "_get_moodle_category_id")

-----------------------------------------------------------------------------
(* Category resolution, shared by redeem and the learning-path listing *)

_get_moodle_category_id ==
    /\ pc = "_get_moodle_category_id"
    /\ \E r \in Replies(CategoryBodies) :
         LET out == call_moodle(moodle_token, r)
             cat == category_of(out.data)
         IN  /\ Awaited(out, r, "core_course_get_categories", <<"name", MOODLE_CATEGORY_NAME>>)
             /\ IF out.raised # 0
                THEN Respond(out.raised, "call_moodle") /\ UNCHANGED category_id
                ELSE IF cat.raised # 0
                THEN Respond(cat.raised, "_get_moodle_category_id") /\ UNCHANGED category_id
                ELSE /\ category_id' = cat.id
                     /\ pc' = IF endpoint = "redeem" THEN "_get_courses_in_category"
                              ELSE "_fetch_moodle_courses"
                     /\ UNCHANGED response
    /\ UNCHANGED <<Inputs, course_ids, user_id, user, courses, courses_progress, data>>

-----------------------------------------------------------------------------
(* POST /redeem: handle_moodle_enrollment *)

_get_courses_in_category ==
    /\ pc = "_get_courses_in_category"
    /\ \E r \in Replies(CourseListBodies) :
         LET out == call_moodle(moodle_token, r)
             res == course_ids_of(out.data)
         IN  /\ Awaited(out, r, "core_course_get_courses_by_field", <<"category", category_id>>)
             /\ IF out.raised # 0
                THEN Respond(out.raised, "call_moodle") /\ UNCHANGED course_ids
                ELSE IF res.raised # 0
                THEN Respond(res.raised, "_get_courses_in_category") /\ UNCHANGED course_ids
                ELSE /\ course_ids' = res.ids
                     /\ pc' = "_get_or_create_user"
                     /\ UNCHANGED response
    /\ UNCHANGED <<Inputs, category_id, user_id, user, courses, courses_progress, data>>

\* _get_or_create_user up to its second await: the lookup by email
_get_or_create_user ==
    /\ pc = "_get_or_create_user"
    /\ \E r \in Replies(UserBodies) :
         LET out == call_moodle(moodle_token, r)
             users == out.data
         IN  /\ Awaited(out, r, "core_user_get_users_by_field", <<"email", UserEmail>>)
             /\ IF out.raised # 0
                THEN Respond(out.raised, "call_moodle") /\ UNCHANGED user_id
                ELSE IF existing_user(users)
                THEN IF users.items[1].id = JNull
                     THEN Respond(502, "_get_or_create_user") /\ UNCHANGED user_id
                     ELSE /\ user_id' = users.items[1].id.v
                          /\ pc' = "_enrol_user_to_courses"
                          /\ UNCHANGED response
                ELSE /\ pc' = "core_user_create_users"
                     /\ UNCHANGED <<response, user_id>>
    /\ UNCHANGED <<Inputs, category_id, course_ids, user, courses, courses_progress, data>>

\* _get_or_create_user from its second await: the creation
core_user_create_users ==
    /\ pc = "core_user_create_users"
    /\ \E r \in Replies(UserBodies) :
         LET out == call_moodle(moodle_token, r)
             created_users == out.data
         IN  /\ Awaited(out, r, "core_user_create_users", <<"username", UserEmail>>)
             /\ IF out.raised # 0
                THEN Respond(out.raised, "call_moodle") /\ UNCHANGED user_id
                ELSE IF created_users.shape # "list" \/ created_users.items = <<>>
                THEN Respond(502, "_get_or_create_user") /\ UNCHANGED user_id
                ELSE IF created_users.items[1].id = JNull
                THEN Respond(502, "_get_or_create_user") /\ UNCHANGED user_id
                ELSE /\ user_id' = created_users.items[1].id.v
                     /\ pc' = "_enrol_user_to_courses"
                     /\ UNCHANGED response
    /\ UNCHANGED <<Inputs, category_id, course_ids, user, courses, courses_progress, data>>

\* _enrol_user_to_courses, then build_redeem_response
_enrol_user_to_courses ==
    /\ pc = "_enrol_user_to_courses"
    /\ \E r \in Replies(EnrolBodies) :
         LET out == call_moodle(moodle_token, r)
         IN  /\ Awaited(out, r, "enrol_manual_enrol_users", enrolments_of(user_id, course_ids))
             /\ IF out.raised # 0
                THEN Respond(out.raised, "call_moodle") /\ UNCHANGED data
                ELSE /\ Respond(200, "redeem")
                     /\ data' = <<[lp_id |-> lp_id[1], user_id |-> "user-001"]>>
    /\ UNCHANGED <<Inputs, category_id, course_ids, user_id, user, courses, courses_progress>>

-----------------------------------------------------------------------------
(* GET /cursos and GET /cursos/{lp_id}: _build_learning_paths_response *)

_fetch_moodle_courses ==
    /\ pc = "_fetch_moodle_courses"
    /\ \E r \in Replies(CourseListBodies) :
         LET out == call_moodle(moodle_token, r)
             fetched == fetched_courses(out.data)
             result == learning_paths(lp_id, fetched.courses)
         IN  /\ Awaited(out, r, "core_course_get_courses_by_field", <<"category", category_id>>)
             /\ IF out.raised # 0
                THEN Respond(out.raised, "call_moodle") /\ UNCHANGED data
                ELSE IF fetched.raised # 0
                THEN Respond(fetched.raised, "_fetch_moodle_courses") /\ UNCHANGED data
                ELSE IF result.raised # 0
                THEN Respond(result.raised, "_to_datetime") /\ UNCHANGED data
                ELSE IF endpoint = "curso" /\ result.data = <<>>
                THEN Respond(404, "curso") /\ UNCHANGED data
                ELSE Respond(200, endpoint) /\ data' = result.data
    /\ UNCHANGED <<Inputs, category_id, course_ids, user_id, user, courses, courses_progress>>

-----------------------------------------------------------------------------
(* GET /user-lms-progress *)

\* core_enrol_get_users_courses
EnrolledCourses == [id : CourseIdValues, enrolleddate : {"1700000000", "10**20"}]
EnrolledBodies ==
    {Body("list", l) : l \in SeqUpTo(EnrolledCourses, MaxCourses)}
    \cup {Body("dict", <<>>)}

\* core_completion_get_course_completion_status: {"completionstatus": {...}}
\* with a percentage that is absent or a number and a completed flag, an
\* object without a completionstatus object, or a JSON list
PercentageValues == {JNull, JInt(0), JInt(50), JInt(150), JInt(0 - 5)}
CompletionBodies ==
    {Body("completionstatus", <<c>>) : c \in [percentage : PercentageValues, completed : BOOLEAN]}
    \cup {Body("dict", <<>>), Body("list", <<>>)}

\* _get_course_progress after its call returned `body`
course_progress_of(body) ==
    IF body.shape = "completionstatus"
    THEN LET completion == body.items[1]
         IN  IF completion.percentage.t = "int" THEN completion.percentage.v
             ELSE IF completion.completed THEN 100
             ELSE 0
    ELSE 0

\* _build_course_progress_model
_build_course_progress_model(course, progress_value) ==
    LET inscription_date == _to_datetime(course.enrolleddate)
    IN  IF inscription_date.exc # "" THEN [exc |-> inscription_date.exc, model |-> <<>>]
        ELSE [exc |-> "",
              model |-> <<[id |-> str(course.id),
                           inscription_date |-> inscription_date.value,
                           progress |-> progress_value]>>]

RECURSIVE sum(_)
sum(values) == IF values = <<>> THEN 0 ELSE Head(values) + sum(Tail(values))

\* _build_user_progress_response: lps[0]; the float average_progress is kept
\* as the fraction num / den
_build_user_progress_response(id, cps) ==
    LET average_progress ==
            IF cps # <<>>
            THEN [num |-> sum([i \in 1..Len(cps) |-> cps[i].progress]), den |-> Len(cps)]
            ELSE [num |-> 0, den |-> 1]
    IN  [lp_id |-> id,
         lp_progress |-> average_progress,
         sections |-> [i \in 1..Len(cps) |-> [progress |-> cps[i].progress]]]

\* the loop of progress skips the courses without an id
RECURSIVE skip_without_id(_)
skip_without_id(cs) ==
    IF cs # <<>> /\ Head(cs).id = JNull THEN skip_without_id(Tail(cs)) ELSE cs

\* progress from the top of its loop to its next await or its return
loop(cs, cps) ==
    LET left == skip_without_id(cs)
    IN  /\ courses' = left
        /\ courses_progress' = cps
        /\ IF left = <<>>
           THEN /\ Respond(200, "progress")
                /\ data' = <<_build_user_progress_response(lp_id[1], cps)>>
           ELSE /\ pc' = "_get_course_progress"
                /\ UNCHANGED <<response, data>>

_resolve_moodle_user ==
    /\ pc = "_resolve_moodle_user"
    /\ \E r \in Replies(UserBodies) :
         LET out == call_moodle(moodle_token, r)
             users == out.data
             field == IF HasAt(user_identifier) THEN "email" ELSE "id"
         IN  /\ Awaited(out, r, "core_user_get_users_by_field", <<field, user_identifier>>)
             /\ IF out.raised # 0
                THEN Respond(out.raised, "call_moodle") /\ UNCHANGED user
                ELSE IF users.shape # "list" \/ users.items = <<>>
                THEN Respond(404, "_resolve_moodle_user") /\ UNCHANGED user
                ELSE /\ user' = users.items[1]
                     /\ pc' = "_get_user_courses"
                     /\ UNCHANGED response
    /\ UNCHANGED <<Inputs, category_id, course_ids, user_id, courses, courses_progress, data>>

_get_user_courses ==
    /\ pc = "_get_user_courses"
    /\ \E r \in Replies(EnrolledBodies) :
         LET out == call_moodle(moodle_token, r)
         IN  /\ Awaited(out, r, "core_enrol_get_users_courses", <<"userid", user.id>>)
             /\ IF out.raised # 0
                THEN Respond(out.raised, "call_moodle") /\ UNCHANGED <<courses, courses_progress, data>>
                ELSE IF out.data.shape # "list"
                THEN Respond(502, "_get_user_courses") /\ UNCHANGED <<courses, courses_progress, data>>
                ELSE loop(out.data.items, <<>>)
    /\ UNCHANGED <<Inputs, category_id, course_ids, user_id, user>>

\* one iteration of the loop of progress, from its await on
_get_course_progress ==
    /\ pc = "_get_course_progress"
    /\ \E r \in Replies(CompletionBodies) :
         LET out == call_moodle(moodle_token, r)
             course == Head(courses)
             built == _build_course_progress_model(course, course_progress_of(out.data))
         IN  /\ Awaited(out, r, "core_completion_get_course_completion_status",
                        <<course.id, user.id>>)
             /\ IF out.raised # 0
                THEN Respond(out.raised, "call_moodle") /\ UNCHANGED <<courses, courses_progress, data>>
                ELSE IF built.exc # ""
                THEN Respond(500, "_to_datetime") /\ UNCHANGED <<courses, courses_progress, data>>
                ELSE loop(Tail(courses), Append(courses_progress, built.model[1]))
    /\ UNCHANGED <<Inputs, category_id, course_ids, user_id, user>>

-----------------------------------------------------------------------------

Next ==
    \/ Request
    \/ cursos
    \/ curso
    \/ progress
    \/ redeem
    \/ _get_moodle_category_id
    \/ _get_courses_in_category
    \/ _get_or_create_user
    \/ core_user_create_users
    \/ _enrol_user_to_courses
    \/ _fetch_moodle_courses
    \/ _resolve_moodle_user
    \/ _get_user_courses
    \/ _get_course_progress

Spec == Init /\ [][Next]_vars

-----------------------------------------------------------------------------
(* The mapping of one upstream course record, on every combination of its  *)
(* epoch fields.                                                           *)

AllTsValues == TsValues \cup {"10**17"}
AllCourseRecords ==
    [id : CourseIdValues, startdate : AllTsValues, enddate : AllTsValues,
     timecreated : AllTsValues, timemodified : AllTsValues]

InitMap ==
    /\ moodle_token = TRUE
    /\ pc = "idle"
    /\ endpoint = "none"
    /\ api_key = <<>>
    /\ lp_id = <<>>
    /\ user_identifier = ""
    /\ invoked = 0
    /\ posts = <<>>
    /\ reply = NoReply
    /\ response = Running
    /\ Locals
    /\ course_in \in AllCourseRecords
    /\ lp_out = <<>>

MapCourse ==
    /\ lp_out = <<>>
    /\ lp_out' = <<_map_moodle_course_to_learning_path(course_in)>>
    /\ UNCHANGED <<moodle_token, pc, endpoint, api_key, lp_id, user_identifier, invoked,
                   posts, reply, response, category_id, course_ids, user_id, user,
                   courses, courses_progress, data, course_in>>

NextMap == MapCourse

SpecMap == InitMap /\ [][NextMap]_vars

-----------------------------------------------------------------------------
(* Properties *)

LastPost == posts[Len(posts)]
Issued(wsfunction) == {i \in 1..Len(posts) : posts[i].wsfunction = wsfunction}
\* the request has just received the reply to a POST of wsfunction
After(wsfunction) == posts # <<>> /\ LastPost.wsfunction = wsfunction
Ended(status) == pc = "done" /\ response.status = status

\* C1: on every protected endpoint a request whose api-key header is missing,
\* empty or different from the configured key ends with 401 and issues no
\* outbound call at any point.
C1_UnauthorizedNoOutboundCall ==
    (endpoint \in Endpoints /\ (api_key = <<>> \/ api_key[1] # DUMMY_API_KEY)) =>
        /\ posts = <<>>
        /\ invoked = 0
        /\ pc \in {endpoint, "done"}
        /\ (pc = "done" => response.status = 401)

C1_Witness ==
    /\ endpoint = "redeem"
    /\ api_key = <<"otra-api-key">>
    /\ Ended(401)
    /\ posts = <<>>

\* the course listing holds no course record with an id
ZeroCourses(r) ==
    /\ r.kind = "ok"
    /\ r.body.shape = "courses"
    /\ \A i \in 1..Len(r.body.items) : r.body.items[i].id = JNull

\* C2: in redeem, when the resolved category holds no course record with an
\* id, the request ends with 400 and neither core_user_create_users nor
\* enrol_manual_enrol_users is issued.
C2_EmptyCategoryBadRequest ==
    (endpoint = "redeem" /\ After("core_course_get_courses_by_field") /\ ZeroCourses(reply)) =>
        /\ Ended(400)
        /\ Issued("core_user_create_users") = {}
        /\ Issued("enrol_manual_enrol_users") = {}

C2_Witness ==
    /\ endpoint = "redeem"
    /\ After("core_course_get_courses_by_field")
    /\ ZeroCourses(reply)
    /\ reply.body.items # <<>>
    /\ Ended(400)

\* the reply logged with a POST found a user / returned without a match
Found(post) == post.answer.kind = "ok" /\ post.answer.shape = "list" /\ post.answer.n > 0
NoMatch(post) == post.answer.kind = "ok" /\ ~Found(post)

\* C3: in redeem, if the lookup by email returns an existing user no
\* user-creation call is issued in the request; if it returns no match,
\* exactly one user-creation call is issued, before any enrollment call.
C3_CreateOnlyWithoutMatch ==
    endpoint = "redeem" =>
        \A i \in Issued("core_user_get_users_by_field") :
            /\ Found(posts[i]) => Issued("core_user_create_users") = {}
            /\ NoMatch(posts[i]) =>
                 \/ i = Len(posts) /\ pc = "core_user_create_users"
                 \/ /\ i < Len(posts)
                    /\ Issued("core_user_create_users") = {i + 1}
                    /\ \A j \in Issued("enrol_manual_enrol_users") : j > i + 1

C3_Witness ==
    /\ endpoint = "redeem"
    /\ Ended(200)
    /\ \E i \in Issued("core_user_get_users_by_field") : NoMatch(posts[i])
    /\ Cardinality(Issued("core_user_create_users")) = 1
    /\ Issued("enrol_manual_enrol_users") # {}

\* C4: in the user-progress operation the learning-path progress is 0 when no
\* course is enrolled and otherwise the arithmetic mean of the per-course
\* progress values, every one of which lies in [0,100].
C4_ProgressAggregation ==
    (endpoint = "progress" /\ Ended(200)) =>
        LET lp_progress == data[1].lp_progress
            values == [i \in 1..Len(courses_progress) |-> courses_progress[i].progress]
        IN  /\ courses_progress = <<>> => lp_progress.num = 0
            /\ courses_progress # <<>> =>
                 lp_progress.num * Len(values) = sum(values) * lp_progress.den
            /\ \A i \in 1..Len(values) : values[i] >= 0 /\ values[i] <= 100

\* the aggregation alone: 0 without courses, else the mean
ProgressIsMean ==
    (endpoint = "progress" /\ Ended(200)) =>
        LET lp_progress == data[1].lp_progress
            values == [i \in 1..Len(courses_progress) |-> courses_progress[i].progress]
        IN  /\ courses_progress = <<>> => lp_progress.num = 0
            /\ courses_progress # <<>> =>
                 lp_progress.num * Len(values) = sum(values) * lp_progress.den

\* C5: _to_datetime returns a timestamp for every input and never raises,
\* every invalid or missing input gives the fallback timestamp, so the
\* mapping of a course record never fails because of its epoch fields.
C5_TimestampConversionTotal ==
    lp_out # <<>> =>
        /\ lp_out[1].exc = ""
        /\ \A ts \in {course_in.startdate, course_in.enddate,
                      course_in.timecreated, course_in.timemodified} :
             /\ _to_datetime(ts).exc = ""
             /\ ts \notin {"1700000000", "-86400"} => _to_datetime(ts).value = MOCK_TIMESTAMP

ListEndpoint == endpoint \in {"cursos", "curso"}

\* the category lookup returned a list without a category of the configured
\* name / a list whose first category of that name has no id
NoCategory(r) ==
    /\ r.kind = "ok"
    /\ r.body.shape = "list"
    /\ \A i \in 1..Len(r.body.items) : r.body.items[i].name # MOODLE_CATEGORY_NAME
CategoryWithoutId(r) ==
    /\ r.kind = "ok"
    /\ r.body.shape = "list"
    /\ \E i \in 1..Len(r.body.items) :
         /\ r.body.items[i].name = MOODLE_CATEGORY_NAME
         /\ r.body.items[i].id = JNull
         /\ \A j \in 1..(i - 1) : r.body.items[j].name # MOODLE_CATEGORY_NAME

\* C6 as stated: in List/Get Learning Paths a category lookup without a
\* category of the configured name fails with 404, a matching category
\* without id fails with 502, and no course-listing call is issued.
C6_MissingCategoryNotFound ==
    (ListEndpoint /\ After("core_course_get_categories")) =>
        /\ NoCategory(reply) =>
             Ended(404) /\ Issued("core_course_get_courses_by_field") = {}
        /\ CategoryWithoutId(reply) =>
             Ended(502) /\ Issued("core_course_get_courses_by_field") = {}

\* C6 amended: in List/Get Learning Paths a category lookup that returns a
\* list without a category of the configured name fails with 400, one whose
\* first category of that name has no id fails with 502, and in both cases
\* no course-listing call is issued.
C6_MissingCategoryBadRequest ==
    (ListEndpoint /\ After("core_course_get_categories")) =>
        /\ NoCategory(reply) =>
             Ended(400) /\ Issued("core_course_get_courses_by_field") = {}
        /\ CategoryWithoutId(reply) =>
             Ended(502) /\ Issued("core_course_get_courses_by_field") = {}

C6_Witness ==
    /\ endpoint = "cursos"
    /\ After("core_course_get_categories")
    /\ NoCategory(reply)
    /\ reply.body.items # <<>>
    /\ Ended(400)

\* the course listing is not an object with "courses" / lists no course
UnexpectedShape(r) == r.kind = "ok" /\ r.body.shape \in {"dict", "list"}
EmptyCategory(r) == r.kind = "ok" /\ r.body.shape = "courses" /\ r.body.items = <<>>

\* C7 as stated: in List/Get Learning Paths a course listing of unexpected
\* shape fails with 502 and a category with zero courses fails with 404.
C7_EmptyCategoryNotFound ==
    (ListEndpoint /\ After("core_course_get_courses_by_field")) =>
        /\ UnexpectedShape(reply) => Ended(502)
        /\ EmptyCategory(reply) => Ended(404)

\* C7 amended: a course listing of unexpected shape fails with 502 on both
\* endpoints; a category with zero courses fails with 404 on GET
\* /cursos/{id}, and on GET /cursos gives a success response with an empty
\* data list.
C7_EmptyCategoryByEndpoint ==
    (ListEndpoint /\ After("core_course_get_courses_by_field")) =>
        /\ UnexpectedShape(reply) => Ended(502)
        /\ EmptyCategory(reply) =>
             IF endpoint = "curso" THEN Ended(404) ELSE Ended(200) /\ data = <<>>

C7_Witness ==
    /\ endpoint = "cursos"
    /\ After("core_course_get_courses_by_field")
    /\ EmptyCategory(reply)
    /\ Ended(200)
    /\ data = <<>>

\* a non-empty id is requested and the listing was received and mapped
Filtered ==
    /\ ListEndpoint
    /\ After("core_course_get_courses_by_field")
    /\ lp_id # <<>> /\ lp_id[1] # ""
    /\ reply.kind = "ok" /\ reply.body.shape = "courses"
    /\ response.status # 500
NoCourseWithId == \A i \in 1..Len(reply.body.items) : str(reply.body.items[i].id) # lp_id[1]

\* C8 as stated: whenever a specific id is requested the result holds only
\* learning paths of that id, and if no mapped learning path has that id the
\* operation reports 404.
C8_FilteredOrNotFound ==
    Filtered =>
        /\ response.status = 200 => \A i \in 1..Len(data) : data[i].id = lp_id[1]
        /\ NoCourseWithId => Ended(404)

\* C8 amended: whenever a non-empty id is requested and the listing is
\* mapped, the result holds only learning paths of that id; if no mapped
\* learning path has that id, GET /cursos/{id} reports 404 and GET /cursos
\* gives a success response with an empty data list.
C8_FilteredByEndpoint ==
    Filtered =>
        /\ response.status = 200 => \A i \in 1..Len(data) : data[i].id = lp_id[1]
        /\ NoCourseWithId =>
             IF endpoint = "curso" THEN Ended(404) ELSE Ended(200) /\ data = <<>>
        /\ ~NoCourseWithId => Ended(200) /\ data # <<>>

C8_Witness ==
    /\ Filtered
    /\ endpoint = "cursos"
    /\ Ended(200)
    /\ data # <<>>
    /\ \E i \in 1..Len(reply.body.items) : str(reply.body.items[i].id) # lp_id[1]

\* the last POST failed upstream
UpstreamFailure ==
    /\ posts # <<>>
    /\ \/ reply.kind \in {"transport_error", "http_error"}
       \/ reply.kind = "ok" /\ reply.body.shape = "exception"

\* C9 as stated: every failure of a call that originates upstream (transport
\* failure, non-2xx status, 2xx exception envelope) surfaces as 502, and the
\* failed call is attempted exactly once.
C9_UpstreamFailureIsGatewayError ==
    UpstreamFailure =>
        /\ Ended(502)
        /\ Len(posts) = invoked
        /\ \A i \in 1..(Len(posts) - 1) : posts[i].answer.kind = "ok"

\* C9 amended: a transport failure or a non-2xx status surfaces as 502, a
\* 2xx exception envelope surfaces as 400, and in every case the failed call
\* is attempted exactly once.
C9_UpstreamFailureByKind ==
    UpstreamFailure =>
        /\ IF reply.kind = "ok" THEN Ended(400) ELSE Ended(502)
        /\ response.origin = "call_moodle"
        /\ Len(posts) = invoked
        /\ \A i \in 1..(Len(posts) - 1) : posts[i].answer.kind = "ok"

C9_Witness ==
    /\ UpstreamFailure
    /\ reply.kind = "transport_error"
    /\ Len(posts) = 3
    /\ Ended(502)

IsPrefix(s, t) == Len(s) <= Len(t) /\ \A i \in 1..Len(s) : s[i] = t[i]
Functions == [i \in 1..Len(posts) |-> posts[i].wsfunction]

\* C10: in redeem the outbound calls are issued in the order category
\* lookup, course listing, user lookup, (optional) user creation,
\* enrollment, each at most once; once a step fails no later call is issued
\* and the response is an error; a success response is returned only after
\* the enrollment call succeeded.
C10_RedeemOrder ==
    endpoint = "redeem" =>
        /\ \/ IsPrefix(Functions, <<"core_course_get_categories",
                                    "core_course_get_courses_by_field",
                                    "core_user_get_users_by_field",
                                    "core_user_create_users",
                                    "enrol_manual_enrol_users">>)
           \/ IsPrefix(Functions, <<"core_course_get_categories",
                                    "core_course_get_courses_by_field",
                                    "core_user_get_users_by_field",
                                    "enrol_manual_enrol_users">>)
        /\ \A i \in 1..(Len(posts) - 1) : posts[i].answer.kind = "ok"
        /\ (posts # <<>> /\ LastPost.answer.kind # "ok") => pc = "done"
        /\ pc = "done" => response.status = 200 \/ response.status >= 400
        /\ response.status # 0 => pc = "done"
        /\ response.status = 200 =>
             /\ LastPost.wsfunction = "enrol_manual_enrol_users"
             /\ LastPost.answer.kind = "ok"

C10_Witness ==
    /\ endpoint = "redeem"
    /\ Ended(200)
    /\ Len(posts) = 5

\* the ids of the listed course records that have one, in listing order
RECURSIVE ListedIds(_)
ListedIds(items) ==
    IF items = <<>> THEN <<>>
    ELSE IF Head(items).id = JNull THEN ListedIds(Tail(items))
    ELSE <<Head(items).id.v>> \o ListedIds(Tail(items))

EnrolFields == {"roleid", "userid", "courseid"}

\* C11: a redeem that reaches the enrollment step sends a single enrollment
\* request holding exactly one record per course id obtained from the
\* category listing (none omitted, none added, indices contiguous from 0,
\* in listing order), and every record carries the resolved or newly
\* created user id and the fixed student role.
C11_OneEnrolmentPerCourse ==
    endpoint = "redeem" =>
        \* the course ids kept are those of the listing
        /\ (After("core_course_get_courses_by_field") /\ pc # "done") =>
             course_ids = ListedIds(reply.body.items)
        \* the user id kept is the one looked up or created
        /\ ((After("core_user_get_users_by_field") \/ After("core_user_create_users"))
               /\ pc = "_enrol_user_to_courses") =>
             user_id = reply.body.items[1].id.v
        /\ Cardinality(Issued("enrol_manual_enrol_users")) <= 1
        /\ \A e \in Issued("enrol_manual_enrol_users") :
             LET enrolments == posts[e].params
             IN  /\ course_ids # <<>>
                 /\ DOMAIN enrolments =
                        {<<idx, f>> : idx \in 0..(Len(course_ids) - 1), f \in EnrolFields}
                 /\ \A idx \in 0..(Len(course_ids) - 1) :
                      /\ enrolments[<<idx, "courseid">>] = course_ids[idx + 1]
                      /\ enrolments[<<idx, "userid">>] = user_id
                      /\ enrolments[<<idx, "roleid">>] = 5

C11_Witness ==
    /\ endpoint = "redeem"
    /\ Ended(200)
    /\ Len(course_ids) = 2
    /\ course_ids[1] # course_ids[2]
    /\ Issued("enrol_manual_enrol_users") # {}
    /\ Issued("core_user_create_users") # {}

====
